---- MODULE Spec2Model ----
(***************************************************************************)
(* Temporal alignment and sampling engine of network-viz.                  *)
(*                                                                         *)
(*   SpecSample : CsvDataSource (reset / locateIndex / interpolate /       *)
(*                sample) over a grid and a series store.                  *)
(*   SpecLoad   : loadScenarioData (concurrent link-direction fetches,     *)
(*                grid establishment, conforming, host scalar series).     *)
(*   SpecUI     : main.ts loadAndApply (versioned selection loads applied  *)
(*                to the controller).                                      *)
(*                                                                         *)
(* Numbers: timestamps and stored samples are integers; interpolated       *)
(* values are exact rationals <<num, den>> in lowest terms (den > 0).      *)
(* Array indices are 0-based as in the source; a TLA+ sequence s holds the *)
(* source's s[i] at position i + 1.                                        *)
(***************************************************************************)
EXTENDS Integers, Sequences, FiniteSets, TLC

VARIABLES
    \* ---- CsvDataSource (SpecSample) ----
    timestamps,        \* this.timestamps
    linkSeries,        \* this.linkSeries : link id -> [forward, reverse]
    hostBudgetSeries,  \* this.hostBudgetSeries : metricsId -> array
    hostQueueSeries,   \* this.hostQueueSeries  : metricsId -> array
    lastIndex,         \* this.lastIndex
    lastTime,          \* this.lastTime
    snapshot,          \* value returned by the latest sample() call
    lastArg,           \* argument of the latest sample() call
    lastOp,            \* "new" | "reset" | "sample"
    monotone,          \* every sample() since the last reset() had t >= the one before
    repeated,          \* the latest sample() repeated the t of the sample() right before it
    \* ---- loadScenarioData (SpecLoad) ----
    load,              \* the state of the load in progress (see InitLoad)
    missingScalarResources,
    \* ---- the loadScenarioData calls of a page session (SpecSession) ----
    calls,             \* call number -> the state of that call (as load)
    \* ---- main.ts (SpecUI) ----
    ui                 \* the page state (see InitUI)

vars == <<timestamps, linkSeries, hostBudgetSeries, hostQueueSeries, lastIndex,
          lastTime, snapshot, lastArg, lastOp, monotone, repeated, load,
          missingScalarResources, calls, ui>>

engineVars == <<timestamps, linkSeries, hostBudgetSeries, hostQueueSeries,
                lastIndex, lastTime, snapshot, lastArg, lastOp, monotone, repeated>>

(***************************************************************************)
(* Bounds                                                                  *)
(***************************************************************************)
MaxLen == 4
MaxTime == 2
MaxRows == 2

(***************************************************************************)
(* Arithmetic helpers                                                      *)
(***************************************************************************)
Min2(a, b) == IF a < b THEN a ELSE b
Max2(a, b) == IF a > b THEN a ELSE b
Abs(a) == IF a < 0 THEN 0 - a ELSE a

RECURSIVE GCD(_, _)
GCD(a, b) == IF b = 0 THEN a ELSE GCD(b, a % b)

\* the rational n/d (d > 0) in lowest terms
Rat(n, d) == LET g == GCD(Abs(n), d) IN <<n \div g, d \div g>>
RInt(n) == <<n, 1>>
RAdd(x, y) == Rat(x[1] * y[2] + y[1] * x[2], x[2] * y[2])
RSub(x, y) == Rat(x[1] * y[2] - y[1] * x[2], x[2] * y[2])
RMul(x, y) == Rat(x[1] * y[1], x[2] * y[2])
RDivInt(x, k) == Rat(x[1], x[2] * k)
RLess(x, y) == x[1] * y[2] < y[1] * x[2]
RMax0Identity(x) == x

\* Math.max(0, x)
RMax0(x) == IF x[1] < 0 THEN <<0, 1>> ELSE x

(***************************************************************************)
(* Layout (leafSpine.ts), reduced: spine sp1, tor1 and the first two       *)
(* servers of rack 1, in the order makeLeafSpineLayout pushes them, with   *)
(* every link makeLeafSpineLayout puts among them.  tor1 is end b of its   *)
(* server links and end a of its spine link, as in the full layout, where  *)
(* every node has an incident link.                                        *)
(***************************************************************************)
LayoutNodes ==
    << [id |-> "sp1",   type |-> "switch", metricsId |-> 34],
       [id |-> "tor1",  type |-> "switch", metricsId |-> 32],
       [id |-> "r1s01", type |-> "host",   metricsId |-> 0],
       [id |-> "r1s02", type |-> "host",   metricsId |-> 1] >>

LayoutLinks ==
    << [id |-> "r1s01-tor1", a |-> "r1s01", b |-> "tor1"],
       [id |-> "r1s02-tor1", a |-> "r1s02", b |-> "tor1"],
       [id |-> "tor1-sp1",   a |-> "tor1",  b |-> "sp1"] >>

NodeIds == {LayoutNodes[i].id : i \in 1..Len(LayoutNodes)}
LinkIds == {LayoutLinks[i].id : i \in 1..Len(LayoutLinks)}
HostIds == {LayoutNodes[i].metricsId : i \in {j \in 1..Len(LayoutNodes) : LayoutNodes[j].type = "host"}}

(***************************************************************************)
(* CsvDataSource                                                           *)
(***************************************************************************)
Undefined == <<>>

\* series[i] ?? dflt for a 0-based i (undefined outside the array)
At(series, i, dflt) == IF i + 1 \in DOMAIN series THEN series[i + 1] ELSE dflt

RECURSIVE ScanMax(_, _, _)
ScanMax(ts, i, d) ==
    IF i >= Len(ts) THEN d
    ELSE ScanMax(ts, i + 1, IF ts[i + 1] > d THEN ts[i + 1] ELSE d)

\* constructor: this.duration
Duration(ts) ==
    IF Len(ts) = 0 THEN 0
    ELSE LET d == ts[Len(ts)]
         IN IF ~(d > 0) THEN ScanMax(ts, 0, d) ELSE d

\* a search that stops on the last index whose timestamp is at most the time
RECURSIVE AdvanceToFloor(_, _, _)
AdvanceToFloor(ts, idx, clampedTime) ==
    IF idx < Len(ts) - 1 /\ clampedTime >= ts[(idx + 1) + 1]
    THEN AdvanceToFloor(ts, idx + 1, clampedTime)
    ELSE idx

AdvanceOnce(ts, idx, clampedTime) ==
    IF idx < Len(ts) - 2 /\ clampedTime > ts[(idx + 1) + 1] THEN idx + 1 ELSE idx

\* the while loop of locateIndex
RECURSIVE AdvanceWhile(_, _, _)
AdvanceWhile(ts, idx, clampedTime) ==
    IF idx < Len(ts) - 2 /\ clampedTime > ts[(idx + 1) + 1]
    THEN AdvanceWhile(ts, idx + 1, clampedTime)
    ELSE idx

locateIndexOneStep(ts, li, lt, time) ==
    LET clampedTime == Max2(0, Min2(time, Duration(ts)))
        start == IF clampedTime < lt THEN 0 ELSE li
    IN [lastIndex |-> IF start < Len(ts) - 2 /\ clampedTime > ts[(start + 1) + 1]
                      THEN start + 1 ELSE start,
        lastTime |-> clampedTime]

locateIndexNoRewind(ts, li, lt, time) ==
    LET clampedTime == Max2(0, Min2(time, Duration(ts)))
    IN [lastIndex |-> AdvanceWhile(ts, li, clampedTime),
        lastTime |-> clampedTime]

\* locateIndex(time) from cursor (li, lt): the new cursor
locateIndex(ts, li, lt, time) ==
    LET clampedTime == Max2(0, Min2(time, Duration(ts)))
        start == IF clampedTime < lt THEN 0 ELSE li
    IN [lastIndex |-> AdvanceWhile(ts, start, clampedTime),
        lastTime |-> clampedTime]

interpolateNearest(series, idx, nextIdx, frac) ==
    LET v0 == At(series, idx, 0)
    IN RInt(v0)

\* interpolate(series, idx, nextIdx, frac), frac a rational
interpolate(series, idx, nextIdx, frac) ==
    LET v0 == At(series, idx, 0)
        v1 == At(series, nextIdx, v0)
    IN RAdd(RInt(v0), RMul(RInt(v1 - v0), frac))

BracketUnitSpan(ts, idx, clamped) ==
    LET nextIdx == Min2(idx + 1, Len(ts) - 1)
        t0 == ts[idx + 1]
    IN [idx |-> idx, nextIdx |-> nextIdx,
        frac |-> Rat(Min2(1, Max2(0, clamped - t0)), 1)]

\* the interpolation position sample() derives from the located index
Bracket(ts, idx, clamped) ==
    LET nextIdx == Min2(idx + 1, Len(ts) - 1)
        t0 == ts[idx + 1]
        t1 == ts[nextIdx + 1]
        span == IF t1 > t0 THEN t1 - t0 ELSE 1
        frac == IF span > 0
                THEN Rat(Min2(span, Max2(0, clamped - t0)), span)
                ELSE <<0, 1>>
    IN [idx |-> idx, nextIdx |-> nextIdx, frac |-> frac]

\* link pass of sample(): one LinkSnapshot
LinkSnap(data, br) ==
    LET aToB == interpolate(data.forward.throughput, br.idx, br.nextIdx, br.frac)
        bToA == interpolate(data.reverse.throughput, br.idx, br.nextIdx, br.frac)
        queueA == RMax0(interpolate(data.forward.queue, br.idx, br.nextIdx, br.frac))
        queueB == RMax0(interpolate(data.reverse.queue, br.idx, br.nextIdx, br.frac))
    IN [aToB |-> RMax0(aToB), bToA |-> RMax0(bToA), queueA |-> queueA, queueB |-> queueB]

\* nodeQueueSum / nodeQueueCount of node id after the first k links
RECURSIVE NodeQueueSum(_, _, _, _)
NodeQueueSum(links, ls, id, k) ==
    IF k = 0 THEN <<0, 1>>
    ELSE LET link == LayoutLinks[k]
             prev == NodeQueueSum(links, ls, id, k - 1)
         IN IF link.id \notin DOMAIN ls THEN prev
            ELSE LET p1 == IF link.a = id THEN RAdd(prev, links[link.id].queueA) ELSE prev
                 IN IF link.b = id THEN RAdd(p1, links[link.id].queueB) ELSE p1

NodeQueueCountAtMostOne(ls, id, k) ==
    IF \E j \in 1..k : /\ LayoutLinks[j].id \in DOMAIN ls
                       /\ (LayoutLinks[j].a = id \/ LayoutLinks[j].b = id)
    THEN 1 ELSE 0

RECURSIVE NodeQueueCount(_, _, _)
NodeQueueCount(ls, id, k) ==
    IF k = 0 THEN 0
    ELSE LET link == LayoutLinks[k]
             prev == NodeQueueCount(ls, id, k - 1)
         IN IF link.id \notin DOMAIN ls THEN prev
            ELSE prev + (IF link.a = id THEN 1 ELSE 0) + (IF link.b = id THEN 1 ELSE 0)

NodeSnapNoOverride(node, links, ls, hb, hq, br) ==
    LET count == NodeQueueCount(ls, node.id, Len(LayoutLinks))
        avg == IF count > 0
               THEN RDivInt(NodeQueueSum(links, ls, node.id, Len(LayoutLinks)), count)
               ELSE <<0, 1>>
        isHost == node.type = "host"
        hasBudget == isHost /\ node.metricsId \in DOMAIN hb
        bucketValue == IF hasBudget
                       THEN RMax0(interpolate(hb[node.metricsId], br.idx, br.nextIdx, br.frac))
                       ELSE Undefined
    IN [queue |-> RMax0(avg), bucket |-> bucketValue, hostQueueFromScalar |-> FALSE]

\* node pass of sample(): one NodeSnapshot
NodeSnap(node, links, ls, hb, hq, br) ==
    LET count == NodeQueueCount(ls, node.id, Len(LayoutLinks))
        avg == IF count > 0
               THEN RDivInt(NodeQueueSum(links, ls, node.id, Len(LayoutLinks)), count)
               ELSE <<0, 1>>
        isHost == node.type = "host"
        hasBudget == isHost /\ node.metricsId \in DOMAIN hb
        hasQueue == isHost /\ node.metricsId \in DOMAIN hq
        bucketValue == IF hasBudget
                       THEN RMax0(interpolate(hb[node.metricsId], br.idx, br.nextIdx, br.frac))
                       ELSE Undefined
        hostQueueValue == IF hasQueue
                          THEN RMax0(interpolate(hq[node.metricsId], br.idx, br.nextIdx, br.frac))
                          ELSE Undefined
        queueValue == IF isHost
                      THEN RMax0(IF hostQueueValue = Undefined THEN avg ELSE hostQueueValue)
                      ELSE RMax0(avg)
    IN [queue |-> queueValue, bucket |-> bucketValue, hostQueueFromScalar |-> hasQueue]

EmptySnapshot == [t |-> 0, links |-> <<>>, nodes |-> <<>>]

sampleUnclamped(ts, ls, hb, hq, li, lt, time) ==
    IF Len(ts) = 0
    THEN [snapshot |-> EmptySnapshot, lastIndex |-> li, lastTime |-> lt]
    ELSE LET cur == locateIndex(ts, li, lt, time)
             br == Bracket(ts, cur.lastIndex, time)
             links == [id \in LinkIds \cap DOMAIN ls |-> LinkSnap(ls[id], br)]
             nodes == [id \in NodeIds |->
                         LET node == CHOOSE n \in {LayoutNodes[i] : i \in 1..Len(LayoutNodes)} : n.id = id
                         IN NodeSnap(node, links, ls, hb, hq, br)]
         IN [snapshot |-> [t |-> time, links |-> links, nodes |-> nodes],
             lastIndex |-> cur.lastIndex, lastTime |-> cur.lastTime]

\* sample(time) from cursor (li, lt): the snapshot and the new cursor
sample(ts, ls, hb, hq, li, lt, time) ==
    IF Len(ts) = 0
    THEN [snapshot |-> EmptySnapshot, lastIndex |-> li, lastTime |-> lt]
    ELSE LET clamped == Max2(0, Min2(time, Duration(ts)))
             cur == locateIndex(ts, li, lt, clamped)
             br == Bracket(ts, cur.lastIndex, clamped)
             links == [id \in LinkIds \cap DOMAIN ls |-> LinkSnap(ls[id], br)]
             nodes == [id \in NodeIds |->
                         LET node == CHOOSE n \in {LayoutNodes[i] : i \in 1..Len(LayoutNodes)} : n.id = id
                         IN NodeSnap(node, links, ls, hb, hq, br)]
         IN [snapshot |-> [t |-> clamped, links |-> links, nodes |-> nodes],
             lastIndex |-> cur.lastIndex, lastTime |-> cur.lastTime]

\* what a freshly constructed engine over the same store returns for sample(time)
FreshSample(time) ==
    sample(timestamps, linkSeries, hostBudgetSeries, hostQueueSeries, 0, 0, time).snapshot

(***************************************************************************)
(* loadScenarioData: payloads and pure helpers                             *)
(*                                                                         *)
(* A response body is [markup, lines]: markup says whether the text starts *)
(* like an HTML document (HTML_SNIFF_RE), lines are the text split at line *)
(* breaks, each line split at commas into its fields (<<>> a blank line).  *)
(***************************************************************************)
None == <<>>
Some(x) == <<x>>
IsSome(o) == o # <<>>
Get(o) == o[1]

Dirs == {"forward", "reverse"}
HostKinds == <<"budget_bytes", "credit_backlog">>

isHtmlPayloadContentTypeOnly(contentType, body) == contentType = "text/html"

\* isHtmlPayload(contentType, body)
isHtmlPayload(contentType, body) ==
    IF contentType = "text/html" THEN TRUE ELSE body.markup

NonBlank(line) == line # <<>>

parseCsvNoRowCheck(text, reuseTimestamps) ==
    LET lines == SelectSeq(text.lines, NonBlank)
        count == Max2(0, Len(lines) - 1)
        short(i) == Len(lines[i + 1]) < 3
    IN [ok |-> TRUE,
        timestamps |-> IF IsSome(reuseTimestamps) THEN None
                       ELSE Some([i \in 1..count |-> IF short(i) THEN 0 ELSE lines[i + 1][1]]),
        throughput |-> [i \in 1..count |-> IF short(i) THEN 0 ELSE lines[i + 1][2]],
        queue |-> [i \in 1..count |-> IF short(i) THEN 0 ELSE lines[i + 1][3]]]

\* parseCsv(text, reuseTimestamps); ok = FALSE when it throws
parseCsv(text, reuseTimestamps) ==
    LET lines == SelectSeq(text.lines, NonBlank)
        count == Len(lines) - 1
        short(i) == Len(lines[i + 1]) < 3
    IN IF Len(lines) <= 1
       THEN [ok |-> FALSE, timestamps |-> None, throughput |-> <<>>, queue |-> <<>>]
       ELSE [ok |-> TRUE,
             timestamps |-> IF IsSome(reuseTimestamps) THEN None
                            ELSE Some([i \in 1..count |-> IF short(i) THEN 0 ELSE lines[i + 1][1]]),
             throughput |-> [i \in 1..count |-> IF short(i) THEN 0 ELSE lines[i + 1][2]],
             queue |-> [i \in 1..count |-> IF short(i) THEN 0 ELSE lines[i + 1][3]]]

parseScalarCsvNoRowCheck(text, reuseTimestamps) ==
    LET lines == SelectSeq(text.lines, NonBlank)
        count == Max2(0, Len(lines) - 1)
        short(i) == Len(lines[i + 1]) < 2
    IN [ok |-> TRUE,
        timestamps |-> IF IsSome(reuseTimestamps) THEN None
                       ELSE Some([i \in 1..count |-> IF short(i) THEN 0 ELSE lines[i + 1][1]]),
        values |-> [i \in 1..count |-> IF short(i) THEN 0 ELSE lines[i + 1][2]]]

\* parseScalarCsv(text, reuseTimestamps); ok = FALSE when it throws
parseScalarCsv(text, reuseTimestamps) ==
    LET lines == SelectSeq(text.lines, NonBlank)
        count == Len(lines) - 1
        short(i) == Len(lines[i + 1]) < 2
    IN IF Len(lines) <= 1
       THEN [ok |-> FALSE, timestamps |-> None, values |-> <<>>]
       ELSE [ok |-> TRUE,
             timestamps |-> IF IsSome(reuseTimestamps) THEN None
                            ELSE Some([i \in 1..count |-> IF short(i) THEN 0 ELSE lines[i + 1][1]]),
             values |-> [i \in 1..count |-> IF short(i) THEN 0 ELSE lines[i + 1][2]]]

createZeroSeriesOneMore(length) ==
    [throughput |-> [i \in 1..(length + 1) |-> 0], queue |-> [i \in 1..(length + 1) |-> 0]]

\* createZeroSeries(length)
createZeroSeries(length) ==
    [throughput |-> [i \in 1..length |-> 0], queue |-> [i \in 1..length |-> 0]]

\* zeroBaseTimestamps(ts): the array after the in-place update
zeroBaseTimestamps(ts) ==
    IF Len(ts) = 0 THEN ts
    ELSE LET offset == ts[1]
         IN IF offset = 0 THEN ts ELSE [i \in 1..Len(ts) |-> ts[i] - offset]

conformKeepTail(values, expected) ==
    LET actual == Len(values)
    IN IF actual = expected THEN values
       ELSE IF actual > expected THEN SubSeq(values, actual - expected + 1, actual)
       ELSE [i \in 1..expected |-> IF i <= actual THEN values[i] ELSE 0]

\* the truncate / pad branch applied to one array against the grid length
conform(values, expected) ==
    LET actual == Len(values)
    IN IF actual = expected THEN values
       ELSE IF actual > expected THEN SubSeq(values, 1, expected)
       ELSE [i \in 1..expected |-> IF i <= actual THEN values[i] ELSE 0]

\* hostSeriesAvailability.json: scenario -> protocol -> load -> kind -> hosts
hostSeriesAvailability ==
    [scenario \in {"dcqcn"} |->
        [protocol \in {"homa"} |->
            [ld \in {"50"} |->
                [kind \in {"budget_bytes", "credit_backlog"} |->
                    IF kind = "budget_bytes" THEN <<0, 1>> ELSE <<1>>]]]]

\* the selections a load is started with: one listed in the manifest, one not
Selections == {[scenario |-> "dcqcn", protocol |-> "homa", load |-> ld] : ld \in {"50", "80"}}

hostScalarExistsAlways(selection, seriesKey, metricsId) == TRUE

\* hostScalarExists(selection, seriesKey, metricsId)
hostScalarExists(selection, seriesKey, metricsId) ==
    IF selection.scenario \notin DOMAIN hostSeriesAvailability THEN FALSE
    ELSE LET scenarioEntry == hostSeriesAvailability[selection.scenario]
         IN IF selection.protocol \notin DOMAIN scenarioEntry THEN FALSE
            ELSE LET protocolEntry == scenarioEntry[selection.protocol]
                 IN IF selection.load \notin DOMAIN protocolEntry THEN FALSE
                    ELSE LET loadEntry == protocolEntry[selection.load]
                         IN IF seriesKey \notin DOMAIN loadEntry THEN FALSE
                            ELSE \E i \in 1..Len(loadEntry[seriesKey]) :
                                    loadEntry[seriesKey][i] = metricsId

\* getHostScalarCsvPath(selection, node, seriesKey): the URL as its segments
getHostScalarCsvPath(selection, metricsId, seriesKey) ==
    <<selection.scenario, selection.protocol, selection.load, seriesKey, metricsId>>

(***************************************************************************)
(* SpecLoad: loadScenarioData                                              *)
(*                                                                         *)
(* What a fetch resolves to is decided by the environment when the fetch   *)
(* is issued (link directions) or answered (host scalars):                 *)
(*   throw : fetch() rejects            notok : response.ok is false       *)
(*   html  : an HTML page served OK     csv   : a CSV with `rows` data rows*)
(*   sniff : an HTML page served OK with a content-type other than HTML    *)
(***************************************************************************)
\* loadScenarioData calls of one page session
MaxCalls == 2

Outcomes ==
    {[kind |-> k, rows |-> 0] : k \in {"throw", "notok", "html", "sniff"}}
    \cup {[kind |-> "csv", rows |-> n] : n \in 0..MaxRows}

HtmlBody == [markup |-> TRUE, lines |-> << <<"<!DOCTYPE html>">>, <<"<html>">>, <<"</html>">> >>]

DirNum(d) == IF d = "forward" THEN 1 ELSE 2

\* the CSV of direction d of link k with n data rows, ending with a line
\* break; the second row of the last link's reverse file lacks its queue field
LinkBody(k, d, n) ==
    [markup |-> FALSE,
     lines |-> << <<"time", "throughput", "queue">> >>
               \o [i \in 1..n |->
                     IF k = Len(LayoutLinks) /\ d = "reverse" /\ i = 2
                     THEN <<4 + i, 100 * k + 10 * DirNum(d) + i>>
                     ELSE <<4 + i, 100 * k + 10 * DirNum(d) + i, 500 + 100 * k + 10 * DirNum(d) + i>>]
               \o << <<>> >>]

\* the scalar CSV of host h for kind number kn with n data rows
ScalarBody(h, kn, n) ==
    [markup |-> FALSE,
     lines |-> << <<"time", "value">> >>
               \o [i \in 1..n |-> <<4 + i, 1000 * kn + 10 * (h + 1) + i>>]
               \o << <<>> >>]

ContentType(o) == IF o.kind = "html" THEN "text/html" ELSE "text/csv"
ResponseOk(o) == o.kind # "notok"

NoSeries == [throughput |-> <<>>, queue |-> <<>>]
IdleDir == [pc |-> "idle", value |-> NoSeries, gridWas |-> FALSE]
IdleHost == [pc |-> "idle", res |-> [kind |-> "none", rows |-> 0]]

InitLoadRec ==
    [phase |-> "idle",
     selection |-> CHOOSE sel \in Selections : TRUE,
     timestamps |-> None,          \* let timestamps: Float64Array | undefined
     series |-> <<>>,              \* link id -> LinkSeries
     hostBudgetSeries |-> <<>>,
     hostQueueSeries |-> <<>>,
     link |-> 0,                   \* position of the link loop in layout.links
     res |-> [d \in Dirs |-> [kind |-> "none", rows |-> 0]],
     dir |-> [d \in Dirs |-> IdleDir],
     kind |-> 0,                   \* position in HostKinds of the batch in flight
     host |-> [h \in HostIds |-> IdleHost],
     startTimestamps |-> None,     \* timestamps when the current link was issued
     estab |-> None,               \* <<link, direction>> that assigned timestamps
     call |-> 0]                   \* number of the loadScenarioData call

\* loadDirectionSeries throws
DirThrow(L, d) ==
    [L EXCEPT !.dir[d] = [pc |-> "thrown", value |-> NoSeries, gridWas |-> IsSome(L.timestamps)]]

\* return createZeroSeries(timestamps.length)
DirZero(L, d) ==
    [L EXCEPT !.dir[d] = [pc |-> "done", value |-> createZeroSeries(Len(Get(L.timestamps))),
                          gridWas |-> TRUE]]

\* loadDirectionSeries from `await fetch(url)` to `await response.text()`
onResponse(L, d) ==
    LET o == L.res[d]
    IN IF o.kind = "throw" THEN DirThrow(L, d)
       ELSE IF ~ResponseOk(o)
            THEN IF ~IsSome(L.timestamps) THEN DirThrow(L, d) ELSE DirZero(L, d)
            ELSE [L EXCEPT !.dir[d].pc = "text"]

onTextOverwrite(L, d) ==
    LET o == L.res[d]
        text == IF o.kind \in {"html", "sniff"} THEN HtmlBody ELSE LinkBody(L.link, d, o.rows)
    IN IF isHtmlPayload(ContentType(o), text)
       THEN IF ~IsSome(L.timestamps) THEN DirThrow(L, d) ELSE DirZero(L, d)
       ELSE LET parsed == parseCsv(text, None)
            IN IF ~parsed.ok THEN DirThrow(L, d)
               ELSE [L EXCEPT !.timestamps = Some(zeroBaseTimestamps(Get(parsed.timestamps))),
                              !.estab = Some(<<L.link, d>>),
                              !.dir[d] = [pc |-> "done",
                                          value |-> [throughput |-> parsed.throughput,
                                                     queue |-> parsed.queue],
                                          gridWas |-> IsSome(L.timestamps)]]

\* loadDirectionSeries after `await response.text()`
onText(L, d) ==
    LET o == L.res[d]
        text == IF o.kind \in {"html", "sniff"} THEN HtmlBody ELSE LinkBody(L.link, d, o.rows)
    IN IF isHtmlPayload(ContentType(o), text)
       THEN IF ~IsSome(L.timestamps) THEN DirThrow(L, d) ELSE DirZero(L, d)
       ELSE LET parsed == parseCsv(text, L.timestamps)
            IN IF ~parsed.ok THEN DirThrow(L, d)
               ELSE IF ~IsSome(L.timestamps)
               THEN IF ~IsSome(parsed.timestamps) THEN DirThrow(L, d)
                    ELSE [L EXCEPT !.timestamps = Some(zeroBaseTimestamps(Get(parsed.timestamps))),
                                   !.estab = Some(<<L.link, d>>),
                                   !.dir[d] = [pc |-> "done",
                                               value |-> [throughput |-> parsed.throughput,
                                                          queue |-> parsed.queue],
                                               gridWas |-> FALSE]]
               ELSE LET expected == Len(Get(L.timestamps))
                    IN [L EXCEPT !.dir[d] =
                          [pc |-> "done",
                           value |-> [throughput |-> conform(parsed.throughput, expected),
                                      queue |-> conform(parsed.queue, expected)],
                           gridWas |-> TRUE]]

\* await Promise.all([...]) rejects as soon as one direction has thrown
PromiseAll(L) ==
    IF L.phase = "links" /\ \E d \in Dirs : L.dir[d].pc = "thrown"
    THEN [L EXCEPT !.phase = "rejected"]
    ELSE L

\* the next continuation of direction d, whichever await it is parked at
DirStep(L, d) ==
    IF L.dir[d].pc = "fetch" THEN PromiseAll(onResponse(L, d))
    ELSE IF L.dir[d].pc = "text" THEN PromiseAll(onText(L, d))
    ELSE L

\* both loadDirectionSeries calls of link k are started
IssueLink(L, k, fo, ro) ==
    [L EXCEPT !.phase = "links", !.link = k,
              !.res = [d \in Dirs |-> IF d = "forward" THEN fo ELSE ro],
              !.dir = [d \in Dirs |-> [pc |-> "fetch", value |-> NoSeries, gridWas |-> FALSE]],
              !.startTimestamps = L.timestamps]

\* series.set(link.id, { link, forward, reverse })
SetSeries(L) ==
    [L EXCEPT !.series = [id \in DOMAIN L.series \cup {LayoutLinks[L.link].id} |->
                            IF id = LayoutLinks[L.link].id
                            THEN [forward |-> L.dir["forward"].value,
                                  reverse |-> L.dir["reverse"].value]
                            ELSE L.series[id]]]

\* a batch head that does not consult missingScalarResources
StartHostBatchNoMemory(L, missing, kn) ==
    LET url(h) == getHostScalarCsvPath(L.selection, h, HostKinds[kn])
        absent(h) == ~hostScalarExists(L.selection, HostKinds[kn], h)
    IN [load |-> [L EXCEPT !.phase = HostKinds[kn], !.kind = kn,
                           !.host = [h \in HostIds |->
                                       [pc |-> IF absent(h) THEN "absent" ELSE "fetch",
                                        res |-> [kind |-> "none", rows |-> 0]]]],
        missing |-> missing \cup {url(h) : h \in {x \in HostIds : absent(x)}}]

\* the synchronous head of every hostNodes.map callback of one batch
StartHostBatch(L, missing, kn) ==
    LET url(h) == getHostScalarCsvPath(L.selection, h, HostKinds[kn])
        skip(h) == url(h) \in missing
        absent(h) == ~skip(h) /\ ~hostScalarExists(L.selection, HostKinds[kn], h)
    IN [load |-> [L EXCEPT !.phase = HostKinds[kn], !.kind = kn,
                           !.host = [h \in HostIds |->
                                       [pc |-> IF skip(h) THEN "skipped"
                                               ELSE IF absent(h) THEN "absent" ELSE "fetch",
                                        res |-> [kind |-> "none", rows |-> 0]]]],
        missing |-> missing \cup {url(h) : h \in {x \in HostIds : absent(x)}}]

\* target.set(node.metricsId, values)
TargetSet(L, h, values) ==
    IF L.kind = 1
    THEN [L EXCEPT !.hostBudgetSeries =
            [x \in DOMAIN L.hostBudgetSeries \cup {h} |->
                IF x = h THEN values ELSE L.hostBudgetSeries[x]]]
    ELSE [L EXCEPT !.hostQueueSeries =
            [x \in DOMAIN L.hostQueueSeries \cup {h} |->
                IF x = h THEN values ELSE L.hostQueueSeries[x]]]

\* host callback from `await fetch(url)` to `await response.text()`
onHostResponse(L, missing, h, o) ==
    LET url == getHostScalarCsvPath(L.selection, h, HostKinds[L.kind])
    IN IF o.kind = "throw"
       THEN [load |-> [L EXCEPT !.host[h] = [pc |-> "caught", res |-> o]], missing |-> missing]
       ELSE IF ~ResponseOk(o)
       THEN [load |-> [L EXCEPT !.host[h] = [pc |-> "missing", res |-> o]],
             missing |-> missing \cup {url}]
       ELSE [load |-> [L EXCEPT !.host[h] = [pc |-> "text", res |-> o]], missing |-> missing]

\* host callback after `await response.text()`
onHostText(L, missing, h) ==
    LET url == getHostScalarCsvPath(L.selection, h, HostKinds[L.kind])
        o == L.host[h].res
        text == IF o.kind \in {"html", "sniff"} THEN HtmlBody ELSE ScalarBody(h, L.kind, o.rows)
    IN IF isHtmlPayload(ContentType(o), text)
       THEN [load |-> [L EXCEPT !.host[h].pc = "missing"], missing |-> missing \cup {url}]
       ELSE LET parsed == parseScalarCsv(text, L.timestamps)
            IN IF ~parsed.ok
               THEN [load |-> [L EXCEPT !.host[h].pc = "caught"], missing |-> missing]
               ELSE [load |-> TargetSet([L EXCEPT !.host[h].pc = "stored"], h,
                                        conform(parsed.values, Len(Get(L.timestamps)))),
                     missing |-> missing]

HostSettled(hs) == hs.pc \in {"skipped", "absent", "caught", "missing", "stored"}

InitIdleUI == ui = <<>>

InitIdleLoad == load = InitLoadRec /\ missingScalarResources = {} /\ calls = <<>>

InitEngineEmpty ==
    /\ timestamps = <<>>
    /\ linkSeries = <<>>
    /\ hostBudgetSeries = <<>>
    /\ hostQueueSeries = <<>>
    /\ lastIndex = 0
    /\ lastTime = 0
    /\ snapshot = Undefined
    /\ lastArg = 0
    /\ lastOp = "new"
    /\ monotone = TRUE
    /\ repeated = FALSE

InitLoad ==
    /\ InitIdleLoad
    /\ InitEngineEmpty
    /\ InitIdleUI

\* loadScenarioData(selection) up to the first link's Promise.all
StartLoad ==
    /\ load.phase = "idle"
    /\ \E sel \in Selections, fo \in Outcomes, ro \in Outcomes :
          load' = IssueLink([InitLoadRec EXCEPT !.selection = sel, !.call = 1], 1, fo, ro)
    /\ UNCHANGED <<engineVars, missingScalarResources, calls, ui>>

\* fetch(url) of direction d settles
DirResponse(d) ==
    /\ load.phase \in {"links", "rejected"}
    /\ load.dir[d].pc = "fetch"
    /\ load' = PromiseAll(onResponse(load, d))
    /\ UNCHANGED <<engineVars, missingScalarResources, calls, ui>>

\* response.text() of direction d settles
DirText(d) ==
    /\ load.phase \in {"links", "rejected"}
    /\ load.dir[d].pc = "text"
    /\ load' = PromiseAll(onText(load, d))
    /\ UNCHANGED <<engineVars, missingScalarResources, calls, ui>>

BothDone == \A d \in Dirs : load.dir[d].pc = "done"

\* Promise.all of a link resolves and the loop goes to the next link
NextLink ==
    /\ load.phase = "links" /\ BothDone
    /\ load.link < Len(LayoutLinks)
    /\ \E fo \in Outcomes, ro \in Outcomes :
          load' = IssueLink(SetSeries(load), load.link + 1, fo, ro)
    /\ UNCHANGED <<engineVars, missingScalarResources, calls, ui>>

\* Promise.all of the last link resolves: the timestamps check, then the
\* budget_bytes batch is started
LinksDone ==
    /\ load.phase = "links" /\ BothDone
    /\ load.link = Len(LayoutLinks)
    /\ LET L == SetSeries(load)
       IN IF ~IsSome(L.timestamps)
          THEN /\ load' = [L EXCEPT !.phase = "rejected"]
               /\ UNCHANGED missingScalarResources
          ELSE LET b == StartHostBatch(L, missingScalarResources, 1)
               IN /\ load' = b.load
                  /\ missingScalarResources' = b.missing
    /\ UNCHANGED <<engineVars, calls, ui>>

\* fetch(url) of host h settles
HostResponse(h) ==
    /\ load.phase \in {"budget_bytes", "credit_backlog"}
    /\ load.host[h].pc = "fetch"
    /\ \E o \in Outcomes :
          LET r == onHostResponse(load, missingScalarResources, h, o)
          IN /\ load' = r.load
             /\ missingScalarResources' = r.missing
    /\ UNCHANGED <<engineVars, calls, ui>>

\* response.text() of host h settles
HostText(h) ==
    /\ load.phase \in {"budget_bytes", "credit_backlog"}
    /\ load.host[h].pc = "text"
    /\ LET r == onHostText(load, missingScalarResources, h)
       IN /\ load' = r.load
          /\ missingScalarResources' = r.missing
    /\ UNCHANGED <<engineVars, calls, ui>>

\* the budget_bytes batch has settled: the credit_backlog batch is started
BudgetDone ==
    /\ load.phase = "budget_bytes"
    /\ \A h \in HostIds : HostSettled(load.host[h])
    /\ LET b == StartHostBatch(load, missingScalarResources, 2)
       IN /\ load' = b.load
          /\ missingScalarResources' = b.missing
    /\ UNCHANGED <<engineVars, calls, ui>>

\* the credit_backlog batch has settled: return new CsvDataSource(...)
CreditDone ==
    /\ load.phase = "credit_backlog"
    /\ \A h \in HostIds : HostSettled(load.host[h])
    /\ load' = [load EXCEPT !.phase = "resolved"]
    /\ timestamps' = Get(load.timestamps)
    /\ linkSeries' = load.series
    /\ hostBudgetSeries' = load.hostBudgetSeries
    /\ hostQueueSeries' = load.hostQueueSeries
    /\ lastIndex' = 0
    /\ lastTime' = 0
    /\ UNCHANGED <<snapshot, lastArg, lastOp, monotone, repeated, missingScalarResources, calls, ui>>

NextLoad ==
    \/ StartLoad
    \/ \E d \in Dirs : DirResponse(d)
    \/ \E d \in Dirs : DirText(d)
    \/ NextLink
    \/ LinksDone
    \/ \E h \in HostIds : HostResponse(h)
    \/ \E h \in HostIds : HostText(h)
    \/ BudgetDone
    \/ CreditDone

SpecLoad == InitLoad /\ [][NextLoad]_vars

(***************************************************************************)
(* SpecSession: the loadScenarioData calls of one page session.  A call    *)
(* can be made while earlier calls are pending (triggerReload does not     *)
(* wait); all calls share the module-level set missingScalarResources.     *)
(* calls[k] holds the locals of call k, stepped by the operators of        *)
(* SpecLoad.  The link files are served as CSV with one data row; a host   *)
(* scalar fetch throws, is answered not-OK, is answered with an HTML page, *)
(* or is served as CSV with one data row.  The CsvDataSource a call        *)
(* returns goes to its caller and is not kept in the session state; its    *)
(* construction is the step CreditDone of SpecLoad.                        *)
(***************************************************************************)
SessionLinkOutcomes == {[kind |-> "csv", rows |-> 1]}
SessionHostOutcomes ==
    {[kind |-> k, rows |-> 0] : k \in {"throw", "notok", "html"}}
    \cup {[kind |-> "csv", rows |-> 1]}

InitSession ==
    /\ load = InitLoadRec
    /\ missingScalarResources = {}
    /\ calls = [k \in 1..MaxCalls |-> InitLoadRec]
    /\ InitEngineEmpty
    /\ InitIdleUI

\* the calls that have neither resolved nor rejected
Pending == {k \in 1..MaxCalls : calls[k].phase \in {"links", "budget_bytes", "credit_backlog"}}

\* calls followed while pending at the same time
MaxPending == Min2(MaxCalls, 2)

\* loadScenarioData(selection) is called, whatever the earlier calls are doing
StartSessionLoad ==
    /\ Cardinality(Pending) < MaxPending
    /\ \E k \in 1..MaxCalls :
          /\ calls[k].phase = "idle"
          /\ \A j \in 1..(k - 1) : calls[j].phase # "idle"
          /\ \E sel \in Selections, fo \in SessionLinkOutcomes, ro \in SessionLinkOutcomes :
                calls' = [calls EXCEPT ![k] =
                            IssueLink([InitLoadRec EXCEPT !.selection = sel, !.call = k],
                                      1, fo, ro)]
    /\ UNCHANGED <<engineVars, load, missingScalarResources, ui>>

\* fetch(url) of direction d of call k settles
SessionDirResponse(k, d) ==
    /\ calls[k].phase \in {"links", "rejected"}
    /\ calls[k].dir[d].pc = "fetch"
    /\ calls' = [calls EXCEPT ![k] = PromiseAll(onResponse(calls[k], d))]
    /\ UNCHANGED <<engineVars, load, missingScalarResources, ui>>

\* response.text() of direction d of call k settles
SessionDirText(k, d) ==
    /\ calls[k].phase \in {"links", "rejected"}
    /\ calls[k].dir[d].pc = "text"
    /\ calls' = [calls EXCEPT ![k] = PromiseAll(onText(calls[k], d))]
    /\ UNCHANGED <<engineVars, load, missingScalarResources, ui>>

\* Promise.all of a link of call k resolves and the loop goes to the next link
SessionNextLink(k) ==
    /\ calls[k].phase = "links"
    /\ \A d \in Dirs : calls[k].dir[d].pc = "done"
    /\ calls[k].link < Len(LayoutLinks)
    /\ \E fo \in SessionLinkOutcomes, ro \in SessionLinkOutcomes :
          calls' = [calls EXCEPT ![k] = IssueLink(SetSeries(calls[k]), calls[k].link + 1, fo, ro)]
    /\ UNCHANGED <<engineVars, load, missingScalarResources, ui>>

\* Promise.all of the last link of call k resolves: the timestamps check,
\* then the budget_bytes batch is started
SessionLinksDone(k) ==
    /\ calls[k].phase = "links"
    /\ \A d \in Dirs : calls[k].dir[d].pc = "done"
    /\ calls[k].link = Len(LayoutLinks)
    /\ LET L == SetSeries(calls[k])
       IN IF ~IsSome(L.timestamps)
          THEN /\ calls' = [calls EXCEPT ![k] = [L EXCEPT !.phase = "rejected"]]
               /\ UNCHANGED missingScalarResources
          ELSE LET b == StartHostBatch(L, missingScalarResources, 1)
               IN /\ calls' = [calls EXCEPT ![k] = b.load]
                  /\ missingScalarResources' = b.missing
    /\ UNCHANGED <<engineVars, load, ui>>

\* fetch(url) of host h of call k settles
SessionHostResponse(k, h) ==
    /\ calls[k].phase \in {"budget_bytes", "credit_backlog"}
    /\ calls[k].host[h].pc = "fetch"
    /\ \E o \in SessionHostOutcomes :
          LET r == onHostResponse(calls[k], missingScalarResources, h, o)
          IN /\ calls' = [calls EXCEPT ![k] = r.load]
             /\ missingScalarResources' = r.missing
    /\ UNCHANGED <<engineVars, load, ui>>

\* response.text() of host h of call k settles
SessionHostText(k, h) ==
    /\ calls[k].phase \in {"budget_bytes", "credit_backlog"}
    /\ calls[k].host[h].pc = "text"
    /\ LET r == onHostText(calls[k], missingScalarResources, h)
       IN /\ calls' = [calls EXCEPT ![k] = r.load]
          /\ missingScalarResources' = r.missing
    /\ UNCHANGED <<engineVars, load, ui>>

\* the budget_bytes batch of call k has settled: its credit_backlog batch is
\* started
SessionBudgetDone(k) ==
    /\ calls[k].phase = "budget_bytes"
    /\ \A h \in HostIds : HostSettled(calls[k].host[h])
    /\ LET b == StartHostBatch(calls[k], missingScalarResources, 2)
       IN /\ calls' = [calls EXCEPT ![k] = b.load]
          /\ missingScalarResources' = b.missing
    /\ UNCHANGED <<engineVars, load, ui>>

\* the credit_backlog batch of call k has settled: the call resolves with a
\* new CsvDataSource, which goes to the caller, and its locals are gone
SessionCreditDone(k) ==
    /\ calls[k].phase = "credit_backlog"
    /\ \A h \in HostIds : HostSettled(calls[k].host[h])
    /\ calls' = [calls EXCEPT ![k] = [InitLoadRec EXCEPT !.phase = "resolved", !.call = k]]
    /\ UNCHANGED <<engineVars, load, missingScalarResources, ui>>

NextSession ==
    \/ StartSessionLoad
    \/ \E k \in 1..MaxCalls, d \in Dirs : SessionDirResponse(k, d)
    \/ \E k \in 1..MaxCalls, d \in Dirs : SessionDirText(k, d)
    \/ \E k \in 1..MaxCalls : SessionNextLink(k)
    \/ \E k \in 1..MaxCalls : SessionLinksDone(k)
    \/ \E k \in 1..MaxCalls, h \in HostIds : SessionHostResponse(k, h)
    \/ \E k \in 1..MaxCalls, h \in HostIds : SessionHostText(k, h)
    \/ \E k \in 1..MaxCalls : SessionBudgetDone(k)
    \/ \E k \in 1..MaxCalls : SessionCreditDone(k)

SpecSession == InitSession /\ [][NextSession]_vars

(***************************************************************************)
(* SpecSample: the stores an engine can be constructed over                *)
(***************************************************************************)
TimeVals == 0..MaxTime
QueryTimes == (0 - 1)..(MaxTime + 1)

\* grids as zeroBaseTimestamps leaves them: first entry 0, any order after it
Grids == UNION {{ts \in [1..n -> TimeVals] : ts[1] = 0} : n \in 1..MaxLen}

\* sample profiles: ramp, substituted zeros, mixed sign, zero-padded tail
Profile(p, n) ==
    [i \in 1..n |-> CASE p = "ramp" -> 10 * i
                      [] p = "zero" -> 0
                      [] p = "mixed" -> IF i % 2 = 1 THEN 4 ELSE 0 - 2
                      [] OTHER -> IF i = 1 THEN 3 ELSE 0]
Profiles == {"ramp", "zero", "mixed"}
NextProfile(p) == CASE p = "ramp" -> "zero" [] p = "zero" -> "mixed" [] OTHER -> "ramp"

NonDecreasing(ts) == \A i \in 1..(Len(ts) - 1) : ts[i] <= ts[i + 1]
StrictlyIncreasing(ts) == \A i \in 1..(Len(ts) - 1) : ts[i] < ts[i + 1]


InitSample ==
    /\ timestamps \in Grids
    /\ \E a \in Profiles :
         LET n == Len(timestamps)
             b == NextProfile(a)
             c == NextProfile(b)
         IN
         /\ linkSeries =
              [id \in LinkIds |->
                 CASE id = "r1s01-tor1" ->
                      [forward |-> [throughput |-> Profile(a, n), queue |-> Profile(b, n)],
                       reverse |-> [throughput |-> Profile(b, n), queue |-> Profile(c, n)]]
                   [] id = "r1s02-tor1" ->
                      [forward |-> [throughput |-> Profile(c, n), queue |-> Profile(a, n)],
                       reverse |-> [throughput |-> Profile("pad", n), queue |-> Profile(b, n)]]
                   [] OTHER ->
                      [forward |-> [throughput |-> Profile(b, n), queue |-> Profile(a, n)],
                       reverse |-> [throughput |-> Profile(a, n), queue |-> Profile(c, n)]]]
         /\ hostBudgetSeries = (0 :> Profile(c, n))
         /\ hostQueueSeries = (1 :> Profile(b, n))
    /\ lastIndex = 0
    /\ lastTime = 0
    /\ snapshot = Undefined
    /\ lastArg = 0
    /\ lastOp = "new"
    /\ monotone = TRUE
    /\ repeated = FALSE
    /\ InitIdleLoad
    /\ InitIdleUI

\* sample(t)
Sample(t) ==
    LET r == sample(timestamps, linkSeries, hostBudgetSeries, hostQueueSeries,
                    lastIndex, lastTime, t)
    IN /\ snapshot' = r.snapshot
       /\ lastIndex' = r.lastIndex
       /\ lastTime' = r.lastTime
       /\ lastArg' = t
       /\ lastOp' = "sample"
       /\ monotone' = (monotone /\ (lastOp = "sample" => t >= lastArg))
       /\ repeated' = (lastOp = "sample" /\ t = lastArg)
       /\ UNCHANGED <<timestamps, linkSeries, hostBudgetSeries, hostQueueSeries,
                      load, missingScalarResources, calls, ui>>

ResetTimeOnly ==
    /\ lastTime' = 0
    /\ lastOp' = "reset"
    /\ monotone' = TRUE
    /\ repeated' = FALSE
    /\ UNCHANGED <<timestamps, linkSeries, hostBudgetSeries, hostQueueSeries,
                   lastIndex, snapshot, lastArg, load, missingScalarResources, calls, ui>>

\* reset()
Reset ==
    /\ lastIndex' = 0
    /\ lastTime' = 0
    /\ lastOp' = "reset"
    /\ monotone' = TRUE
    /\ repeated' = FALSE
    /\ UNCHANGED <<timestamps, linkSeries, hostBudgetSeries, hostQueueSeries,
                   snapshot, lastArg, load, missingScalarResources, calls, ui>>

NextSample ==
    \/ \E t \in QueryTimes : Sample(t)
    \/ Reset

SpecSample == InitSample /\ [][NextSample]_vars

(***************************************************************************)
(* SpecUI: main.ts, the DOMContentLoaded handler, and the controllers of   *)
(* app.ts                                                                  *)
(*                                                                         *)
(* A data source is named by the token of the loadAndApply call that       *)
(* loaded it; a controller by the token of the call that created it.       *)
(* 0 stands for null.  lastEvent names the event whose handler ran last.   *)
(***************************************************************************)
\* data.duration of the data source loaded by call k
DataDuration(k) == 10 * k

\* simulated time one ticker frame adds at speed 1, and the speeds the page
\* can set
FrameStep == 10
TimeScales == {1, 2}

\* a loadAndApply call not made; invoked tells whether the call has invoked
\* initNetworkViz
NoTask == [pc |-> "none", initial |-> FALSE, invoked |-> FALSE]

\* a controller not created; last and forward describe the calls its data
\* source has received since its latest reset(): the time of the latest
\* sample(), and whether all of them were non-decreasing within [0, duration]
NoController ==
    [made |-> FALSE, playing |-> FALSE, speed |-> 1, simTime |-> 0,
     data |-> 0, duration |-> 0, last |-> 0, forward |-> TRUE]

\* data.reset() on the data source of controller record c
dataReset(c) == [c EXCEPT !.last = 0, !.forward = TRUE]

\* renderSnapshot(time) of controller record c: data.sample(time)
renderSnapshot(c, time) ==
    [c EXCEPT !.forward = (c.forward /\ time >= c.last /\ time >= 0 /\ time <= c.duration),
              !.last = time]

\* updateTimeLabel(t)
updateTimeLabel(u, t) == [u EXCEPT !.timeLabel = "time"]

\* applyTimeScale(): controller.setSpeed(1 / currentDenom)
applyTimeScale(u) ==
    IF u.controller # 0 THEN [u EXCEPT !.ctrl[u.controller].speed = u.timeScale] ELSE u

\* setLoading(loading) on page state u
setLoading(u, loading) ==
    LET d == [u EXCEPT !.controlsDisabled = (loading \/ u.controller = 0)]
    IN IF loading
       THEN [d EXCEPT !.playPauseText = "Play", !.timeLabel = "Loading"]
       ELSE d

\* loadAndApply(selection, initial) up to `await loadScenarioData(selection)`
beginLoadAndApply(u, initial) ==
    LET token == u.loadRequestId + 1
    IN setLoading([u EXCEPT !.loadRequestId = token,
                            !.task[token] = [pc |-> "loading", initial |-> initial,
                                             invoked |-> FALSE]],
                  TRUE)

\* the finally block of call k
finallyLoadAndApply(u, k) ==
    IF k = u.loadRequestId THEN setLoading(u, FALSE) ELSE u

\* controller.pause(); controller.setDataSource(data) (app.ts) on the
\* current controller
setDataSource(u, k) ==
    LET c == u.controller
        swapped == [u.ctrl[c] EXCEPT !.playing = FALSE, !.simTime = 0,
                                     !.data = k, !.duration = DataDuration(k)]
    IN updateTimeLabel([u EXCEPT !.ctrl[c] = renderSnapshot(dataReset(swapped), 0),
                                 !.ctrlData = k], 0)

\* loadAndApply call k after loadScenarioData resolved
onLoadResolved(u, k) ==
    LET u1 == [u EXCEPT !.currentDuration = DataDuration(k)]
    IN IF k # u1.loadRequestId
       THEN finallyLoadAndApply([u1 EXCEPT !.task[k].pc = "stale"], k)
       ELSE IF u1.controller = 0 \/ u1.task[k].initial
       THEN [u1 EXCEPT !.task[k].pc = "initing", !.task[k].invoked = TRUE]
       ELSE LET u2 == setDataSource(u1, k)
                u3 == updateTimeLabel([u2 EXCEPT !.playPauseText = "Play"], 0)
                u4 == applyTimeScale(u3)
            IN finallyLoadAndApply([u4 EXCEPT !.task[k].pc = "done"], k)

\* loadAndApply call k after loadScenarioData rejected: catch and finally
onLoadRejected(u, k) ==
    LET u1 == IF k = u.loadRequestId
              THEN [u EXCEPT !.timeLabel = "Failed to load data"]
              ELSE u
    IN finallyLoadAndApply([u1 EXCEPT !.task[k].pc = "failed"], k)

\* the rest of initNetworkViz of call k after `await app.init` resolved, up
\* to its return; the caller is resumed in a later step
onInitResolved(u, k) ==
    LET fresh == [made |-> TRUE, playing |-> FALSE, speed |-> 1, simTime |-> 0,
                  data |-> k, duration |-> DataDuration(k), last |-> 0, forward |-> TRUE]
        first == renderSnapshot(renderSnapshot(dataReset(fresh), 0), 0)
        u1 == updateTimeLabel([u EXCEPT !.ctrl[k] = first], 0)
    IN [u1 EXCEPT !.task[k].pc = "created"]

\* loadAndApply call k after `await initNetworkViz` rejected (app.init
\* rejected): catch and finally
onInitRejected(u, k) ==
    LET u1 == IF k = u.loadRequestId
              THEN [u EXCEPT !.timeLabel = "Failed to load data"]
              ELSE u
    IN finallyLoadAndApply([u1 EXCEPT !.task[k].pc = "failed"], k)

\* loadAndApply call k after `await initNetworkViz` resolved
onControllerReturned(u, k) ==
    LET u2 == [u EXCEPT !.controller = k, !.ctrlData = k]
        u3 == [u2 EXCEPT !.ctrl[k] = renderSnapshot(u2.ctrl[k], u2.ctrl[k].simTime)]
        u4 == IF u3.handlersBound THEN u3
              ELSE applyTimeScale([u3 EXCEPT !.handlersBound = TRUE])
        u5 == applyTimeScale(u4)
    IN finallyLoadAndApply([u5 EXCEPT !.task[k].pc = "done"], k)

\* playPauseBtn.onclick
onPlayPauseClick(u) ==
    LET c == u.controller
    IN IF c = 0 THEN u
       ELSE IF u.ctrl[c].playing
       THEN [u EXCEPT !.ctrl[c].playing = FALSE, !.playPauseText = "Play"]
       ELSE [u EXCEPT !.ctrl[c].playing = TRUE, !.playPauseText = "Pause"]

\* resetBtn.onclick: controller.reset()
onResetClick(u) ==
    LET c == u.controller
    IN IF c = 0 THEN u
       ELSE LET r == [u.ctrl[c] EXCEPT !.playing = FALSE, !.simTime = 0]
                u1 == updateTimeLabel([u EXCEPT !.ctrl[c] = renderSnapshot(dataReset(r), 0)], 0)
            IN [u1 EXCEPT !.playPauseText = "Play"]

\* a ticker frame that does not cap simTime at duration
onTickerUncapped(u, c) ==
    LET dt == FrameStep * u.ctrl[c].speed
        simTime == u.ctrl[c].simTime + dt
        r == renderSnapshot([u.ctrl[c] EXCEPT !.simTime = simTime], simTime)
        u1 == updateTimeLabel([u EXCEPT !.ctrl[c] = r], simTime)
    IN IF simTime >= u.ctrl[c].duration
       THEN [u1 EXCEPT !.ctrl[c].playing = FALSE]
       ELSE u1

\* one frame of the main ticker of controller c while it is playing
onTicker(u, c) ==
    LET dt == FrameStep * u.ctrl[c].speed
        simTime == Min2(u.ctrl[c].simTime + dt, u.ctrl[c].duration)
        r == renderSnapshot([u.ctrl[c] EXCEPT !.simTime = simTime], simTime)
        u1 == updateTimeLabel([u EXCEPT !.ctrl[c] = r], simTime)
    IN IF simTime >= u.ctrl[c].duration
       THEN [u1 EXCEPT !.ctrl[c].playing = FALSE]
       ELSE u1

\* the window resize listener: controller.resize(w, h)
onWindowResize(u) ==
    LET c == u.controller
    IN IF c = 0 THEN u
       ELSE [u EXCEPT !.ctrl[c] = renderSnapshot(u.ctrl[c], u.ctrl[c].simTime)]

MaxLoads == 3

\* the page when the handler has started the initial load
InitUIRec ==
    beginLoadAndApply(
        [loadRequestId |-> 0,
         task |-> [k \in 1..MaxLoads |-> NoTask],
         controller |-> 0,
         ctrlData |-> 0,
         ctrl |-> [k \in 1..MaxLoads |-> NoController],
         timeScale |-> 1,
         currentDuration |-> 0,
         handlersBound |-> FALSE,
         controlsDisabled |-> FALSE,
         playPauseText |-> "Play",
         timeLabel |-> "",
         lastEvent |-> "DOMContentLoaded"],
        TRUE)

InitUI ==
    /\ ui = InitUIRec
    /\ InitIdleLoad
    /\ InitEngineEmpty

\* a change event of one of the three selects: triggerReload()
SelectChange ==
    /\ ui.loadRequestId < MaxLoads
    /\ ui' = [beginLoadAndApply(ui, FALSE) EXCEPT !.lastEvent = "change"]
    /\ UNCHANGED <<engineVars, load, calls, missingScalarResources>>

\* loadScenarioData of call k resolves
LoadResolved(k) ==
    /\ ui.task[k].pc = "loading"
    /\ ui' = [onLoadResolved(ui, k) EXCEPT !.lastEvent = "resolved"]
    /\ UNCHANGED <<engineVars, load, calls, missingScalarResources>>

\* loadScenarioData of call k rejects
LoadRejected(k) ==
    /\ ui.task[k].pc = "loading"
    /\ ui' = [onLoadRejected(ui, k) EXCEPT !.lastEvent = "rejected"]
    /\ UNCHANGED <<engineVars, load, calls, missingScalarResources>>

\* app.init of call k resolves: initNetworkViz builds the controller
InitResolved(k) ==
    /\ ui.task[k].pc = "initing"
    /\ ui' = [onInitResolved(ui, k) EXCEPT !.lastEvent = "built"]
    /\ UNCHANGED <<engineVars, load, calls, missingScalarResources>>

\* app.init of call k rejects, and with it initNetworkViz
InitRejected(k) ==
    /\ ui.task[k].pc = "initing"
    /\ ui' = [onInitRejected(ui, k) EXCEPT !.lastEvent = "initRejected"]
    /\ UNCHANGED <<engineVars, load, calls, missingScalarResources>>

\* loadAndApply call k is resumed with the controller initNetworkViz returned
ControllerReturned(k) ==
    /\ ui.task[k].pc = "created"
    /\ ui' = [onControllerReturned(ui, k) EXCEPT !.lastEvent = "created"]
    /\ UNCHANGED <<engineVars, load, calls, missingScalarResources>>

\* a click on the enabled play/pause button
PlayPauseClick ==
    /\ ui.handlersBound /\ ~ui.controlsDisabled
    /\ ui' = [onPlayPauseClick(ui) EXCEPT !.lastEvent = "playPause"]
    /\ UNCHANGED <<engineVars, load, calls, missingScalarResources>>

\* a click on the enabled reset button
ResetClick ==
    /\ ui.handlersBound /\ ~ui.controlsDisabled
    /\ ui' = [onResetClick(ui) EXCEPT !.lastEvent = "reset"]
    /\ UNCHANGED <<engineVars, load, calls, missingScalarResources>>

\* a frame of the ticker of controller c (it returns at once unless playing)
TickerFrame(c) ==
    /\ ui.ctrl[c].made /\ ui.ctrl[c].playing
    /\ ui' = [onTicker(ui, c) EXCEPT !.lastEvent = "frame"]
    /\ UNCHANGED <<engineVars, load, calls, missingScalarResources>>

\* a resize event of the window
WindowResize ==
    /\ ui.handlersBound
    /\ ui' = [onWindowResize(ui) EXCEPT !.lastEvent = "resize"]
    /\ UNCHANGED <<engineVars, load, calls, missingScalarResources>>

\* an input event of the enabled speed control; its listener is registered
\* after the initial loadAndApply has returned
SpeedChange(s) ==
    /\ ui.task[1].pc \in {"done", "failed", "stale"} /\ ~ui.controlsDisabled
    /\ ui' = applyTimeScale([ui EXCEPT !.timeScale = s, !.lastEvent = "speed"])
    /\ UNCHANGED <<engineVars, load, calls, missingScalarResources>>

NextUI ==
    \/ SelectChange
    \/ \E k \in 1..MaxLoads : LoadResolved(k)
    \/ \E k \in 1..MaxLoads : LoadRejected(k)
    \/ \E k \in 1..MaxLoads : InitResolved(k)
    \/ \E k \in 1..MaxLoads : InitRejected(k)
    \/ \E k \in 1..MaxLoads : ControllerReturned(k)
    \/ PlayPauseClick
    \/ ResetClick
    \/ \E c \in 1..MaxLoads : TickerFrame(c)
    \/ WindowResize
    \/ \E s \in TimeScales : SpeedChange(s)

SpecUI == InitUI /\ [][NextUI]_vars

(***************************************************************************)
(* Claims about the sampling engine (SpecSample)                           *)
(***************************************************************************)
NodeOfHost(h) == CHOOSE n \in {LayoutNodes[i] : i \in 1..Len(LayoutNodes)} :
                    n.type = "host" /\ n.metricsId = h

\* every (stored array, sampled value) pair of a snapshot that is read
\* straight from one stored array
MetricPairs(snap) ==
    {<<linkSeries[id].forward.throughput, snap.links[id].aToB>> : id \in LinkIds}
    \cup {<<linkSeries[id].reverse.throughput, snap.links[id].bToA>> : id \in LinkIds}
    \cup {<<linkSeries[id].forward.queue, snap.links[id].queueA>> : id \in LinkIds}
    \cup {<<linkSeries[id].reverse.queue, snap.links[id].queueB>> : id \in LinkIds}
    \cup {<<hostBudgetSeries[h], snap.nodes[NodeOfHost(h).id].bucket>> : h \in DOMAIN hostBudgetSeries}
    \cup {<<hostQueueSeries[h], snap.nodes[NodeOfHost(h).id].queue>> : h \in DOMAIN hostQueueSeries}

\* C1: at the end of a non-decreasing sequence of sample calls on a
\* non-decreasing grid, sample(t) returned what sample(t) returns directly
\* after reset() (cursor 0, 0).
C1_SeekPlaybackEquivalence ==
    (lastOp = "sample" /\ monotone /\ NonDecreasing(timestamps))
        => snapshot = FreshSample(lastArg)

\* a forward playback that has moved the cursor two brackets into the grid
C1_Witness ==
    /\ lastOp = "sample" /\ monotone /\ NonDecreasing(timestamps)
    /\ lastIndex = 2 /\ lastArg > 0
    /\ snapshot = FreshSample(lastArg)

\* C8 (as stated): sample(timestamps[i]) returns the value stored at index
\* i, for every index i and every metric with non-negative stored values.
C8_ExactGridPoints ==
    lastOp = "sample" =>
        \A i \in 1..Len(timestamps) :
            lastArg = timestamps[i] =>
                \A m \in MetricPairs(snapshot) :
                    (\A k \in 1..Len(m[1]) : m[1][k] >= 0) => m[2] = RInt(m[1][i])

\* C8 (amended): the same on a non-decreasing grid for every index i that
\* is the first one carrying its timestamp.
C8_ExactGridPointsFirstIndex ==
    (lastOp = "sample" /\ NonDecreasing(timestamps)) =>
        \A i \in 1..Len(timestamps) :
            (lastArg = timestamps[i] /\ (i = 1 \/ timestamps[i - 1] < timestamps[i])) =>
                \A m \in MetricPairs(snapshot) :
                    (\A k \in 1..Len(m[1]) : m[1][k] >= 0) => m[2] = RInt(m[1][i])

\* sample(timestamps[2]) (0-based) read the ramp value 30 of index 2
C8_Witness ==
    /\ lastOp = "sample" /\ NonDecreasing(timestamps)
    /\ Len(timestamps) >= 3 /\ timestamps[2] < timestamps[3]
    /\ lastArg = timestamps[3]
    /\ linkSeries["r1s01-tor1"].forward.throughput[3] = 30
    /\ snapshot.links["r1s01-tor1"].aToB = <<30, 1>>

\* the value v[i] + (v[i+1] - v[i]) * (t - ts[i]) / (ts[i+1] - ts[i]),
\* clamped at 0 (i is a TLA+ position)
Lerp(v, ts, i, t) ==
    RMax0(Rat(v[i] * (ts[i + 1] - ts[i]) + (v[i + 1] - v[i]) * (t - ts[i]),
              ts[i + 1] - ts[i]))

\* the spec's example in units of 0.5: grid [0,1,2,3], forward throughput
\* [10,20,30,40], sample(1.5) gives aToB = 25
ExampleSeries ==
    [id \in LinkIds |->
        [forward |-> [throughput |-> <<10, 20, 30, 40>>, queue |-> <<0, 0, 0, 0>>],
         reverse |-> [throughput |-> <<0, 0, 0, 0>>, queue |-> <<0, 0, 0, 0>>]]]
ExampleAToB ==
    sample(<<0, 2, 4, 6>>, ExampleSeries, <<>>, <<>>, 0, 0, 3).snapshot.links["r1s01-tor1"].aToB

\* C9: on a strictly increasing grid, for timestamps[i] <= t <= timestamps[i+1]
\* every metric of sample(t) is the linear interpolation between its
\* samples i and i+1, clamped at 0; the worked example gives 25.
C9_LinearInterpolation ==
    /\ ExampleAToB = <<25, 1>>
    /\ (lastOp = "sample" /\ StrictlyIncreasing(timestamps)) =>
          \A i \in 1..(Len(timestamps) - 1) :
              (timestamps[i] <= lastArg /\ lastArg <= timestamps[i + 1]) =>
                  \A m \in MetricPairs(snapshot) : m[2] = Lerp(m[1], timestamps, i, lastArg)

\* a sample strictly inside a bracket that returned a non-integer value
C9_Witness ==
    /\ lastOp = "sample" /\ StrictlyIncreasing(timestamps)
    /\ \E i \in 1..(Len(timestamps) - 1) :
          timestamps[i] < lastArg /\ lastArg < timestamps[i + 1]
    /\ \E m \in MetricPairs(snapshot) : m[2][2] > 1

\* C10: sample(t) right after sample(t) returns the identical snapshot and
\* leaves lastIndex and lastTime unchanged.
C10_Determinism ==
    [][(lastOp = "sample" /\ lastOp' = "sample" /\ lastArg' = lastArg)
          => (snapshot' = snapshot /\ lastIndex' = lastIndex /\ lastTime' = lastTime)]_vars

\* a repeated sample(t) with the cursor inside the grid
C10_Witness ==
    repeated /\ lastOp = "sample" /\ lastIndex > 0 /\ lastArg > 0

\* C11: reset() leaves lastIndex = 0 and lastTime = 0, the only mutable
\* fields of the engine, and sample(0) called right after reset() returns the
\* snapshot sample(0) returns on a freshly constructed engine over the same
\* grid and series.
C11_ResetEquivalence ==
    /\ [][lastOp' = "reset" => (lastIndex' = 0 /\ lastTime' = 0)]_vars
    /\ [][(lastOp = "reset" /\ lastOp' = "sample" /\ lastArg' = 0)
             => snapshot' = FreshSample(0)]_vars

\* reset() called after a sample at the end of a three-point grid, where the
\* cursor had left index 0
C11_Witness ==
    /\ lastOp = "reset" /\ lastIndex = 0 /\ lastTime = 0
    /\ Len(timestamps) >= 3 /\ StrictlyIncreasing(timestamps)
    /\ snapshot # Undefined /\ lastArg = timestamps[Len(timestamps)]

\* C12: every value of a returned snapshot (aToB, bToA, queueA, queueB of
\* each link, queue of each node, bucket of each host that has one) is >= 0,
\* also when the stored series hold negative samples.
C12_NonNegativity ==
    lastOp = "sample" =>
        /\ \A id \in DOMAIN snapshot.links :
              \A f \in {"aToB", "bToA", "queueA", "queueB"} : snapshot.links[id][f][1] >= 0
        /\ \A id \in DOMAIN snapshot.nodes :
              /\ snapshot.nodes[id].queue[1] >= 0
              /\ snapshot.nodes[id].bucket # Undefined => snapshot.nodes[id].bucket[1] >= 0

\* a sample taken exactly at a grid point whose stored sample is negative
\* returned 0 for that metric
C12_Witness ==
    /\ lastOp = "sample" /\ StrictlyIncreasing(timestamps)
    /\ \E i \in 1..Len(timestamps) :
          /\ lastArg = timestamps[i]
          /\ \E m \in MetricPairs(snapshot) : m[1][i] < 0 /\ m[2] = <<0, 1>>

\* the links of the snapshot incident to node id, and the queue value of
\* link l in the direction facing node id
Incident(snap, id) ==
    {l \in {LayoutLinks[k] : k \in 1..Len(LayoutLinks)} :
        l.id \in DOMAIN snap.links /\ (l.a = id \/ l.b = id)}
Facing(snap, l, id) == IF l.a = id THEN snap.links[l.id].queueA ELSE snap.links[l.id].queueB

RECURSIVE SumFacing(_, _, _)
SumFacing(snap, S, id) ==
    IF S = {} THEN <<0, 1>>
    ELSE LET l == CHOOSE x \in S : TRUE
         IN RAdd(Facing(snap, l, id), SumFacing(snap, S \ {l}, id))

IncidentMean(snap, id) ==
    IF Incident(snap, id) = {} THEN <<0, 1>>
    ELSE RDivInt(SumFacing(snap, Incident(snap, id), id), Cardinality(Incident(snap, id)))

SwitchIds == {LayoutNodes[i].id : i \in {j \in 1..Len(LayoutNodes) : LayoutNodes[j].type = "switch"}}

\* C13: the queue of every switch node of a snapshot is the arithmetic mean,
\* over the links incident to the node, of the link's queue value in the
\* direction facing the node, and 0 when it has no incident link.
C13_SwitchAggregation ==
    (lastOp = "sample" /\ Len(timestamps) > 0) =>
        \A id \in SwitchIds : snapshot.nodes[id].queue = IncidentMean(snapshot, id)

\* tor1 averaged the queueB of its two server links and the queueA of its
\* spine link, which differs from that link's queueB, into a positive value
\* that a mean over like-facing values would miss; sp1 took the spine link's
\* queueB
C13_Witness ==
    /\ lastOp = "sample" /\ Len(timestamps) > 0
    /\ Cardinality(Incident(snapshot, "tor1")) = 3
    /\ snapshot.links["tor1-sp1"].queueA[1] > 0
    /\ snapshot.links["tor1-sp1"].queueA # snapshot.links["tor1-sp1"].queueB
    /\ snapshot.links["r1s01-tor1"].queueB # snapshot.links["r1s02-tor1"].queueB
    /\ snapshot.nodes["tor1"].queue =
          RDivInt(RAdd(snapshot.links["tor1-sp1"].queueA,
                       RAdd(snapshot.links["r1s01-tor1"].queueB,
                            snapshot.links["r1s02-tor1"].queueB)), 3)
    /\ snapshot.nodes["tor1"].queue #
          RDivInt(RAdd(snapshot.links["tor1-sp1"].queueB,
                       RAdd(snapshot.links["r1s01-tor1"].queueB,
                            snapshot.links["r1s02-tor1"].queueB)), 3)
    /\ snapshot.nodes["sp1"].queue = snapshot.links["tor1-sp1"].queueB

HostNodes == {LayoutNodes[i] : i \in {j \in 1..Len(LayoutNodes) : LayoutNodes[j].type = "host"}}

\* the value of a stored scalar series interpolated at the position of the
\* latest sample() call
ScalarAt(series) ==
    LET br == Bracket(timestamps, lastIndex, snapshot.t)
    IN interpolate(series, br.idx, br.nextIdx, br.frac)

\* C14 (as stated): a host's queue is the interpolated value of its stored
\* credit_backlog series, else the incident-link mean; hostQueueFromScalar is
\* true exactly when a series was stored for the host.
C14_HostOverride ==
    (lastOp = "sample" /\ Len(timestamps) > 0) =>
        \A n \in HostNodes :
            IF n.metricsId \in DOMAIN hostQueueSeries
            THEN /\ snapshot.nodes[n.id].queue = ScalarAt(hostQueueSeries[n.metricsId])
                 /\ snapshot.nodes[n.id].hostQueueFromScalar
            ELSE /\ snapshot.nodes[n.id].queue = IncidentMean(snapshot, n.id)
                 /\ ~snapshot.nodes[n.id].hostQueueFromScalar

\* C14 (amended): the same with the interpolated credit_backlog value clamped
\* at 0.
C14_HostOverrideClamped ==
    (lastOp = "sample" /\ Len(timestamps) > 0) =>
        \A n \in HostNodes :
            IF n.metricsId \in DOMAIN hostQueueSeries
            THEN /\ snapshot.nodes[n.id].queue = RMax0(ScalarAt(hostQueueSeries[n.metricsId]))
                 /\ snapshot.nodes[n.id].hostQueueFromScalar
            ELSE /\ snapshot.nodes[n.id].queue = IncidentMean(snapshot, n.id)
                 /\ ~snapshot.nodes[n.id].hostQueueFromScalar

\* host 1 reports its positive scalar value, which is not its link mean, and
\* host 0, without a series, reports its positive link mean unflagged
C14_Witness ==
    /\ lastOp = "sample" /\ Len(timestamps) > 0
    /\ 1 \in DOMAIN hostQueueSeries /\ 0 \notin DOMAIN hostQueueSeries
    /\ snapshot.nodes["r1s02"].hostQueueFromScalar
    /\ snapshot.nodes["r1s02"].queue[1] > 0
    /\ snapshot.nodes["r1s02"].queue # IncidentMean(snapshot, "r1s02")
    /\ ~snapshot.nodes["r1s01"].hostQueueFromScalar
    /\ snapshot.nodes["r1s01"].queue[1] > 0

\* what sample(time) returns from the current cursor
SampleFromHere(time) ==
    sample(timestamps, linkSeries, hostBudgetSeries, hostQueueSeries,
           lastIndex, lastTime, time).snapshot

\* C15: from any cursor, sample(t) with t > duration returns what
\* sample(duration) returns, with snapshot.t = duration, and sample(t) with
\* t < 0 returns what sample(0) returns; over a grid of length 0 sample
\* returns the empty snapshot {t: 0, links: {}, nodes: {}}.
C15_Clamping ==
    /\ [][(lastOp' = "sample" /\ lastArg' > Duration(timestamps))
             => /\ snapshot' = SampleFromHere(Duration(timestamps))
                /\ snapshot'.t = Duration(timestamps)]_vars
    /\ [][(lastOp' = "sample" /\ lastArg' < 0)
             => /\ snapshot' = SampleFromHere(0)
                /\ snapshot'.t = 0]_vars
    /\ [][lastOp' = "sample" =>
            \A t \in QueryTimes :
                sample(<<>>, linkSeries, hostBudgetSeries, hostQueueSeries,
                       lastIndex, lastTime, t).snapshot
                    = [t |-> 0, links |-> <<>>, nodes |-> <<>>]]_vars

\* a query beyond the end of a grid of positive duration held the final
\* values of a ramp
C15_Witness ==
    /\ lastOp = "sample" /\ NonDecreasing(timestamps) /\ Len(timestamps) >= 2
    /\ Duration(timestamps) > 0 /\ lastArg > Duration(timestamps)
    /\ snapshot.t = Duration(timestamps)
    /\ \E m \in MetricPairs(snapshot) :
          m[1][Len(timestamps)] > 10 /\ m[2] = RInt(m[1][Len(timestamps)])

\* C21: on a non-decreasing grid every sample(t), whatever calls and resets
\* came before it, returns the snapshot of a freshly constructed engine, and
\* a call whose clamped t is below lastTime scans from index 0.
C21_HistoryIndependence ==
    [][(lastOp' = "sample" /\ NonDecreasing(timestamps)) =>
          /\ snapshot' = FreshSample(lastArg')
          /\ Max2(0, Min2(lastArg', Duration(timestamps))) < lastTime =>
                lastIndex' = AdvanceWhile(timestamps, 0, Max2(0, Min2(lastArg', Duration(timestamps))))]_vars

\* after a backward scrub the cursor stands inside the grid, before its end
C21_Witness ==
    /\ lastOp = "sample" /\ ~monotone /\ NonDecreasing(timestamps)
    /\ lastIndex >= 1 /\ lastArg > 0 /\ lastArg < Duration(timestamps)
    /\ snapshot = FreshSample(lastArg)

\* the maximum timestamp of a non-empty grid
GridMax(ts) == CHOOSE m \in {ts[i] : i \in 1..Len(ts)} : \A i \in 1..Len(ts) : ts[i] <= m

\* C23: the duration of a non-empty grid, sorted or not, is its final
\* timestamp when that is the maximum of the grid and the maximum of the grid
\* otherwise; the time of every snapshot is the query time clamped to
\* [0, duration].
C23_Duration ==
    Len(timestamps) >= 1 =>
        /\ IF timestamps[Len(timestamps)] = GridMax(timestamps)
           THEN Duration(timestamps) = timestamps[Len(timestamps)]
           ELSE Duration(timestamps) = GridMax(timestamps)
        /\ lastOp = "sample" =>
              snapshot.t = Max2(0, Min2(lastArg, Duration(timestamps)))

\* C28: on a grid of length n >= 1, after any sequence of sample(t) and
\* reset() calls, 0 <= lastIndex <= max(0, n - 2) and 0 <= lastTime <=
\* duration, so the indices idx and min(idx + 1, n - 1) read by sample are
\* inside every series array.
C28_CursorBounds ==
    Len(timestamps) >= 1 =>
        /\ 0 <= lastIndex /\ lastIndex <= Max2(0, Len(timestamps) - 2)
        /\ 0 <= lastTime /\ lastTime <= Duration(timestamps)
        /\ lastIndex + 1 \in DOMAIN timestamps
        /\ Min2(lastIndex + 1, Len(timestamps) - 1) + 1 \in DOMAIN timestamps
        /\ \A id \in LinkIds :
              Len(linkSeries[id].forward.throughput) = Len(timestamps)

\* a query past the end has moved the cursor to its largest value n - 2
C28_Witness ==
    /\ lastOp = "sample"
    /\ Len(timestamps) >= 3
    /\ lastArg > Duration(timestamps)
    /\ lastIndex = Len(timestamps) - 2
    /\ lastTime = Duration(timestamps)

(***************************************************************************)
(* Claims about loadScenarioData (SpecLoad)                                *)
(***************************************************************************)
LinkSettled == \A d \in Dirs : load.dir[d].pc \in {"done", "thrown"}

\* the load as it was when the fetches of the current link were issued
LinkStart(L) ==
    [L EXCEPT !.phase = "links",
              !.timestamps = L.startTimestamps,
              !.estab = IF IsSome(L.startTimestamps) THEN L.estab ELSE None,
              !.dir = [d \in Dirs |-> [pc |-> "fetch", value |-> NoSeries, gridWas |-> FALSE]]]

\* the current link run with the forward fetch completing before the reverse one
ProgramOrder(L) ==
    DirStep(DirStep(DirStep(DirStep(LinkStart(L), "forward"), "forward"), "reverse"), "reverse")

\* C3: for fixed outcomes of a link's two resources, whether the load fails
\* and the series it stores are those of the run in which forward completes
\* first, whatever the arrival order; only the establishing series may differ.
C3_ArrivalOrderIndependence ==
    (load.phase \in {"links", "rejected"} /\ LinkSettled) =>
        LET ref == ProgramOrder(load)
        IN /\ (load.phase = "rejected") = (ref.phase = "rejected")
           /\ (load.phase = "links" /\ load.estab = ref.estab) =>
                 \A d \in Dirs : load.dir[d].value = ref.dir[d].value

Unavailable(o) == o.kind \in {"throw", "notok", "html", "sniff"} \/ (o.kind = "csv" /\ o.rows = 0)

\* C4: a required resource found unavailable while the grid is established is
\* replaced by all-zero throughput and queue arrays of grid length; it never
\* makes loadDirectionSeries throw.
C4_ZeroSubstitution ==
    load.phase \in {"links", "rejected"} =>
        \A d \in Dirs :
            (load.dir[d].pc \in {"done", "thrown"} /\ Unavailable(load.res[d]) /\ load.dir[d].gridWas) =>
                /\ load.dir[d].pc = "done"
                /\ load.dir[d].value.throughput = [i \in 1..Len(Get(load.timestamps)) |-> 0]
                /\ load.dir[d].value.queue = [i \in 1..Len(Get(load.timestamps)) |-> 0]

\* C5: a load that established no grid is rejected; a returned engine has a
\* non-empty grid and a forward and a reverse series for every layout link.
C5_FatalWithoutGrid ==
    /\ (load.phase \notin {"idle", "links"} /\ ~IsSome(load.timestamps)) => load.phase = "rejected"
    /\ load.phase = "resolved" =>
          /\ IsSome(load.timestamps) /\ timestamps = Get(load.timestamps)
          /\ Len(timestamps) >= 1
          /\ \A id \in LinkIds :
                /\ id \in DOMAIN linkSeries
                /\ DOMAIN linkSeries[id] = {"forward", "reverse"}

\* every required resource of the first link was unavailable: the load rejected
C5_Witness ==
    /\ load.phase = "rejected" /\ ~IsSome(load.timestamps)
    /\ LinkSettled /\ \A d \in Dirs : Unavailable(load.res[d])

EngineArrays ==
    {linkSeries[id][d][m] : id \in DOMAIN linkSeries, d \in Dirs, m \in {"throughput", "queue"}}
    \cup {hostBudgetSeries[h] : h \in DOMAIN hostBudgetSeries}
    \cup {hostQueueSeries[h] : h \in DOMAIN hostQueueSeries}

\* C6: in the returned engine every link array and every stored host scalar
\* array is exactly as long as the timestamp grid.
C6_LengthInvariant ==
    load.phase = "resolved" => \A arr \in EngineArrays : Len(arr) = Len(timestamps)

\* an engine built from a substituted, a padded and two host scalar series
C6_Witness ==
    /\ load.phase = "resolved" /\ Len(timestamps) = 2
    /\ linkSeries["r1s01-tor1"].reverse.throughput = <<0, 0>>
    /\ linkSeries["r1s02-tor1"].forward.throughput = <<211, 0>>
    /\ 0 \in DOMAIN hostBudgetSeries /\ 1 \in DOMAIN hostQueueSeries

\* a series of L samples conformed to a grid of N: samples 0..min(L,N)-1
\* kept, zeros from L to N-1
Conformed(raw, N) == [i \in 1..N |-> IF i <= Len(raw) THEN raw[i] ELSE 0]

\* C7: every parsed link series (throughput and queue) and every stored host
\* scalar series equals its parsed samples conformed to the grid length:
\* unchanged if L = N, the first N samples if L > N, zero-filled from L if L < N.
C7_Conforming ==
    /\ load.phase \in {"links", "rejected"} =>
          \A d \in Dirs :
              (load.dir[d].pc = "done" /\ load.res[d].kind = "csv") =>
                  LET raw == parseCsv(LinkBody(load.link, d, load.res[d].rows), None)
                      N == Len(Get(load.timestamps))
                  IN /\ load.dir[d].value.throughput = Conformed(raw.throughput, N)
                     /\ load.dir[d].value.queue = Conformed(raw.queue, N)
    /\ load.phase \in {"budget_bytes", "credit_backlog"} =>
          \A h \in HostIds :
              load.host[h].pc = "stored" =>
                  LET raw == parseScalarCsv(ScalarBody(h, load.kind, load.host[h].res.rows), None)
                      N == Len(Get(load.timestamps))
                      target == IF load.kind = 1 THEN load.hostBudgetSeries
                                ELSE load.hostQueueSeries
                  IN target[h] = Conformed(raw.values, N)

\* a one-row link series padded to a two-point grid
C7_Witness ==
    /\ load.phase = "links" /\ IsSome(load.timestamps) /\ Len(Get(load.timestamps)) = 2
    /\ load.dir["forward"].pc = "done" /\ load.res["forward"].kind = "csv"
    /\ load.res["forward"].rows = 1
    /\ load.dir["forward"].value.throughput[1] > 0
    /\ load.dir["forward"].value.throughput[2] = 0

\* a resource that parses successfully, and the first direction of the
\* current link, forward before reverse, whose resource does
ValidCsv(o) == o.kind = "csv" /\ o.rows >= 1
FirstValidDir(L) == IF ValidCsv(L.res["forward"]) THEN "forward" ELSE "reverse"

\* C16: the grid is established by the first successfully parsed series in
\* program order (forward before reverse within the link), with that series'
\* zero-based timestamps, whatever the completion order of the two fetches.
C16_DeterministicGrid ==
    (load.phase \in {"links", "rejected"} /\ IsSome(load.estab)
        /\ Get(load.estab)[1] = load.link) =>
        LET d == FirstValidDir(load)
            own == parseCsv(LinkBody(load.link, d, load.res[d].rows), None)
        IN /\ Get(load.estab)[2] = d
           /\ Get(load.timestamps) = zeroBaseTimestamps(Get(own.timestamps))

\* C17: once the timestamp grid of a load is established no later step of
\* the load changes its length or its values, so it is assigned at most once
\* and by one series only.
C17_WriteOnceGrid ==
    [][IsSome(load.timestamps) =>
          /\ load'.timestamps = load.timestamps
          /\ load'.estab = load.estab]_vars

\* under a one-point grid established by the first link, a two-row series of
\* the second link has been parsed and stored
C17_Witness ==
    /\ load.phase = "links" /\ load.link = 2
    /\ IsSome(load.timestamps) /\ Len(Get(load.timestamps)) = 1
    /\ Get(load.estab)[1] = 1
    /\ load.dir["forward"].pc = "done" /\ load.res["forward"] = [kind |-> "csv", rows |-> 2]

\* the manifest lists host h under the selection and kind
Listed(sel, kind, h) ==
    /\ sel.scenario \in DOMAIN hostSeriesAvailability
    /\ sel.protocol \in DOMAIN hostSeriesAvailability[sel.scenario]
    /\ sel.load \in DOMAIN hostSeriesAvailability[sel.scenario][sel.protocol]
    /\ kind \in DOMAIN hostSeriesAvailability[sel.scenario][sel.protocol][sel.load]
    /\ LET hosts == hostSeriesAvailability[sel.scenario][sel.protocol][sel.load][kind]
       IN \E i \in 1..Len(hosts) : hosts[i] = h

\* a fetch was issued by the callback of host h in the batch in flight
Requested(hs) == hs.pc \in {"fetch", "text", "caught", "missing", "stored"}

\* C18: a host scalar resource is fetched only if the manifest lists the
\* host's metricsId under the current selection and kind.
C18_ManifestFilter ==
    load.phase \in {"budget_bytes", "credit_backlog"} =>
        \A h \in HostIds :
            Requested(load.host[h]) => Listed(load.selection, HostKinds[load.kind], h)

\* in the credit_backlog batch host 1, listed, was fetched and stored while
\* host 0, not listed, was not requested and its URL was remembered as missing
C18_Witness ==
    /\ load.phase = "credit_backlog"
    /\ load.host[1].pc = "stored"
    /\ load.host[0].pc = "absent"
    /\ getHostScalarCsvPath(load.selection, 0, "credit_backlog") \in missingScalarResources

\* the map the batch in flight (or the last one) stores into
Target(L) == IF L.kind = 1 THEN L.hostBudgetSeries ELSE L.hostQueueSeries

\* C19: a requested host scalar resource that fails (fetch rejects, response
\* not OK, HTML payload, CSV without data rows) leaves the host without an
\* entry for that metric, and no host scalar failure rejects the load: a load
\* is rejected only before its first host batch.
C19_OptionalNonFatal ==
    /\ load.phase = "rejected" => load.kind = 0
    /\ load.phase \in {"budget_bytes", "credit_backlog", "resolved"} =>
          \A h \in HostIds :
              (Unavailable(load.host[h].res) /\ load.host[h].pc \notin {"fetch", "text"}) =>
                  /\ load.host[h].pc \in {"caught", "missing"}
                  /\ h \notin DOMAIN Target(load)
    /\ load.phase = "resolved" =>
          /\ hostBudgetSeries = load.hostBudgetSeries
          /\ hostQueueSeries = load.hostQueueSeries

\* a load resolved although the credit_backlog fetch of host 1 rejected; the
\* engine has the budget series of host 0 and no credit_backlog series
C19_Witness ==
    /\ load.phase = "resolved"
    /\ load.host[1].res.kind = "throw" /\ load.host[1].pc = "caught"
    /\ 1 \notin DOMAIN hostQueueSeries
    /\ 0 \in DOMAIN hostBudgetSeries

\* direction d of load L settled as a non-OK response, and as an OK response
\* of kind k carrying an HTML page, from the same state of the load
AsNotOk(L, d) ==
    PromiseAll(onResponse([L EXCEPT !.res[d] = [kind |-> "notok", rows |-> 0],
                                    !.dir[d].pc = "fetch"], d))
AsHtml(L, d, k) ==
    PromiseAll(onText([L EXCEPT !.res[d] = [kind |-> k, rows |-> 0],
                                !.dir[d].pc = "text"], d))

\* C20: in either grid state an OK response identified as an HTML page by its
\* content-type or by its body has the outcome of a non-OK response: the
\* direction throws and the load is rejected when no grid is established,
\* all-zero arrays of grid length are substituted when one is.
C20_HtmlEqualsFailedFetch ==
    load.phase = "links" =>
        \A d \in {x \in Dirs : load.dir[x].pc \in {"fetch", "text"}} :
            \A k \in {"html", "sniff"} :
                LET a == AsNotOk(load, d)
                    b == AsHtml(load, d, k)
                IN /\ a.dir[d] = b.dir[d]
                   /\ a.phase = b.phase
                   /\ a.timestamps = b.timestamps
                   /\ IF IsSome(load.timestamps)
                      THEN /\ b.dir[d].pc = "done"
                           /\ b.dir[d].value = createZeroSeries(Len(Get(load.timestamps)))
                           /\ b.phase = "links"
                      ELSE b.dir[d].pc = "thrown" /\ b.phase = "rejected"

\* an HTML page served as text/csv was replaced by zeros under a two-point
\* grid, and the load went on
C20_Witness ==
    /\ load.phase = "links"
    /\ \E d \in Dirs :
          /\ load.res[d].kind = "sniff" /\ load.dir[d].pc = "done" /\ load.dir[d].gridWas
          /\ load.dir[d].value.throughput = <<0, 0>>
          /\ Len(Get(load.timestamps)) = 2

\* the links whose two loadDirectionSeries calls have been started
IssuedLinks(L) == 1..L.link

\* C22: the fetches of every link's forward and reverse series are issued
\* before the load waits for any of them: while a fetch of some link has
\* already been answered, no link is left whose fetches are not yet issued.
C22_FanOut ==
    (load.phase = "links" /\ \E d \in Dirs : load.dir[d].pc # "fetch") =>
        IssuedLinks(load) = 1..Len(LayoutLinks)

(***************************************************************************)
(* Claims about the page session (SpecSession)                             *)
(***************************************************************************)
\* the URL the callback of host h works on in the batch of load record L
BatchUrl(L, h) == getHostScalarCsvPath(L.selection, h, HostKinds[L.kind])

\* this step starts a host scalar batch of call k
BatchStarts(k) ==
    /\ calls'[k].phase \in {"budget_bytes", "credit_backlog"}
    /\ calls'[k].phase # calls[k].phase

\* C30: missingScalarResources only grows; no batch of any call, overlapping
\* or later, issues a fetch for a URL that is recorded in it at that moment;
\* a fetch that throws leaves its URL unrecorded, and a URL whose fetch has
\* thrown and that is still unrecorded is fetched again by the next batch
\* that reaches it.
C30_MissingMemory ==
    [][/\ missingScalarResources \subseteq missingScalarResources'
       /\ \A k \in 1..MaxCalls :
            /\ BatchStarts(k) =>
                 \A h \in HostIds :
                    /\ calls'[k].host[h].pc = "fetch"
                          => BatchUrl(calls'[k], h) \notin missingScalarResources
                    /\ BatchUrl(calls'[k], h) \in missingScalarResources
                          => calls'[k].host[h].pc = "skipped"
                    /\ (hostScalarExists(calls'[k].selection, HostKinds[calls'[k].kind], h)
                            /\ BatchUrl(calls'[k], h) \notin missingScalarResources)
                          => calls'[k].host[h].pc = "fetch"
            /\ ~BatchStarts(k) =>
                 \A h \in HostIds :
                    calls'[k].host[h].pc = "fetch" => calls[k].host[h].pc = "fetch"
            /\ \A h \in HostIds :
                 (calls[k].host[h].pc = "fetch" /\ calls'[k].host[h].pc = "caught"
                     /\ calls'[k].host[h].res.kind = "throw")
                 => missingScalarResources' = missingScalarResources]_vars

\* while the first call is still in its budget_bytes batch, a second call
\* for the same selection starts its own: it fetches again the URL whose
\* fetch threw in the first call and skips the URL the first call recorded
\* after a not-OK answer
C30_Witness ==
    /\ calls # <<>>
    /\ calls[1].phase = "budget_bytes"
    /\ calls[2].phase = "budget_bytes"
    /\ calls[2].selection = calls[1].selection
    /\ \E h \in HostIds :
          /\ calls[1].host[h].pc = "caught"
          /\ calls[1].host[h].res.kind = "throw"
          /\ calls[2].host[h].pc = "fetch"
    /\ \E h \in HostIds :
          /\ calls[1].host[h].pc = "missing"
          /\ calls[1].host[h].res.kind = "notok"
          /\ calls[2].host[h].pc = "skipped"
          /\ BatchUrl(calls[2], h) \in missingScalarResources

(***************************************************************************)
(* Claims about main.ts (SpecUI)                                           *)
(***************************************************************************)
\* C2: whenever the data source held by the controller changes, the new one
\* is the result of the load holding the latest loadRequestId; in particular
\* a selection made while the initial controller creation is pending keeps
\* the older result from being applied.
C2_Cancellation ==
    [][ui'.ctrlData # ui.ctrlData => ui'.ctrlData = ui'.loadRequestId]_vars


\* no loadAndApply call is awaiting loadScenarioData or initNetworkViz, or
\* waiting to be resumed
NoLoadPending(u) ==
    \A k \in 1..MaxLoads : u.task[k].pc \notin {"loading", "initing", "created"}

\* C24: when the load for the most recent selection has just failed and no
\* load is pending, the page shows the load-failure message, and the
\* play/reset/speed controls are not enabled on a controller whose data source
\* was loaded for an earlier selection.
C24_FailedLoad ==
    (/\ ui # <<>>
     /\ ui.lastEvent = "rejected"
     /\ ui.task[ui.loadRequestId].pc = "failed"
     /\ NoLoadPending(ui))
        => /\ ui.timeLabel = "Failed to load data"
           /\ (ui.controller # 0 /\ ui.ctrlData # ui.loadRequestId) => ui.controlsDisabled

\* C25: whenever no load is pending and a controller exists, currentDuration
\* equals the duration of the data source applied to the controller; and the
\* completion of a superseded load changes neither currentDuration nor the
\* controller's data source.
C25_DisplayedDuration ==
    [][/\ (ui' # <<>> /\ NoLoadPending(ui') /\ ui'.controller # 0)
            => ui'.currentDuration = ui'.ctrl[ui'.controller].duration
       /\ \A k \in 1..MaxLoads :
            (ui # <<>> /\ ui.task[k].pc = "loading" /\ k # ui.loadRequestId
                /\ ui'.task[k].pc # "loading")
            => /\ ui'.currentDuration = ui.currentDuration
               /\ ui'.ctrlData = ui.ctrlData]_vars

\* the loadAndApply calls that have invoked initNetworkViz
InitInvoked(u) ==
    {k \in 1..MaxLoads : u.task[k].invoked}

\* C26: initNetworkViz is invoked at most once per page, and the controller
\* variable, once assigned, is never replaced by another controller.
C26_SingleController ==
    [][/\ Cardinality(InitInvoked(ui')) <= 1
       /\ ui.controller # 0 => ui'.controller = ui.controller]_vars

\* C27: once a controller exists and no load is pending, the play/pause
\* button reads "Pause" exactly when controller.isPlaying() is true, and
\* "Play" otherwise.
C27_PlayPauseLabel ==
    (ui # <<>> /\ ui.controller # 0 /\ NoLoadPending(ui))
        => /\ ui.playPauseText \in {"Play", "Pause"}
           /\ ui.playPauseText = "Pause" <=> ui.ctrl[ui.controller].playing

\* C29: for every controller, the times passed to data.sample since the
\* latest data.reset() are non-decreasing and within [0, duration], whatever
\* play, pause, ticker frames, resizes and speed changes happened in between,
\* so the rewind branch of the engine is not taken during playback.
C29_ForwardOnly ==
    ui # <<>> =>
        \A c \in 1..MaxLoads :
            ui.ctrl[c].made =>
                /\ ui.ctrl[c].forward
                /\ ui.ctrl[c].last = ui.ctrl[c].simTime
                /\ 0 <= ui.ctrl[c].simTime /\ ui.ctrl[c].simTime <= ui.ctrl[c].duration

\* a resize re-samples a controller that played to the end at speed 2
C29_Witness ==
    /\ ui # <<>>
    /\ ui.lastEvent = "resize"
    /\ ui.controller # 0
    /\ ui.ctrl[ui.controller].duration = 20
    /\ ui.ctrl[ui.controller].speed = 2
    /\ ui.ctrl[ui.controller].last = ui.ctrl[ui.controller].duration
    /\ ui.ctrl[ui.controller].forward

====
